---- MODULE Spec2Model ----
(***************************************************************************)
(* Model of the verdict engine of ic-verifier (src/verify.py): the         *)
(* human-verified cache file, the lru_cache memo in front of verify_ic,    *)
(* the reasoning-service call with one retry, and the reply validator.     *)
(*                                                                         *)
(* Python values are modelled as follows.                                  *)
(*  - a str is a sequence of atoms; an atom is a TLA+ string, either a     *)
(*    whitespace atom (" ", "\n") or a run of non-whitespace characters;   *)
(*  - a JSON / Python scalar is a record [t, n, s]: its type tag, its      *)
(*    numeric value and its text (bool is an int subclass: t = "bool");    *)
(*  - a dict is a function from keys (TLA+ strings) to values;             *)
(*  - a raw service reply is a sequence of tokens [k, s, d].               *)
(***************************************************************************)
EXTENDS Integers, Sequences, FiniteSets, TLC

VARIABLES
    cacheFile,   \* content of CACHE_FILE on disk
    memo,        \* lru_cache of verify_ic: <<key, value>> pairs, least recent first
    clock,       \* number of calls made so far; datetime.now() reads it
    call,        \* the last call: operation and arguments
    outcome,     \* "none" | "returned" | "raised" : how the last call ended
    ret,         \* the value the last call returned
    apiLog,      \* the outcomes of the reasoning-service calls of the last call
    path,        \* the return statement the last call left through
    fileReads,   \* number of reads of CACHE_FILE by the last call
    fileWrites,  \* number of opens-for-write of CACHE_FILE by the last call
    rawReply,    \* the reply handed to _parse_response when it is called alone
    parseOut,    \* what _parse_response made of rawReply
    tmpFiles,    \* the downloaded files of the working directory: name -> content
    fallbackDir, \* FALLBACK_FOLDER: whether it exists, and its files
    second,      \* int(time.time())
    proc,        \* the get_marking_from_datasheet invocations under way
    textIn,      \* the arguments of a datasheet.py function called alone
    textOut,     \* what that function gave
    savers       \* the save_to_cache calls under way in processes of their own

engineVars ==
    <<cacheFile, memo, clock, call, outcome, ret, apiLog, path, fileReads, fileWrites>>
validatorVars == <<rawReply, parseOut>>
sheetVars == <<tmpFiles, fallbackDir, second, proc>>
textVars == <<textIn, textOut>>
vars == <<engineVars, validatorVars, sheetVars, textVars, savers>>

(***************************************************************************)
(* Bounds of the model.                                                    *)
(***************************************************************************)
MaxOps == 3

(***************************************************************************)
(* Python values.                                                          *)
(***************************************************************************)
PyStr(atoms) == [t |-> "str", n |-> 0, s |-> atoms]
PyInt(i) == [t |-> "int", n |-> i, s |-> <<>>]
PyBool(b) == [t |-> "bool", n |-> IF b THEN 1 ELSE 0, s |-> <<>>]
PyFloat(i) == [t |-> "float", n |-> i, s |-> <<>>]
PyNone == [t |-> "none", n |-> 0, s |-> <<>>]

IsWs(a) == a \in {" ", "\n"}

RECURSIVE LStrip(_)
LStrip(s) == IF s # <<>> /\ IsWs(Head(s)) THEN LStrip(Tail(s)) ELSE s

RECURSIVE RStrip(_)
RStrip(s) ==
    IF s # <<>> /\ IsWs(s[Len(s)]) THEN RStrip(SubSeq(s, 1, Len(s) - 1)) ELSE s

\* str.strip()
Strip(s) == RStrip(LStrip(s))

\* how an f-string renders a value
Fmt(v) ==
    CASE v.t = "str" -> v.s
      [] v.t = "int" -> <<ToString(v.n)>>
      [] v.t = "bool" -> <<IF v.n = 1 THEN "True" ELSE "False">>
      [] v.t = "float" -> <<ToString(v.n) \o ".0">>
      [] OTHER -> <<"None">>

GENUINE == <<"GENUINE">>
FAKE == <<"FAKE">>
UNVERIFIABLE == <<"UNVERIFIABLE">>

EmptyDict == [x \in {} |-> PyNone]

\* dict.get(key, default)
Get(d, key, default) == IF key \in DOMAIN d THEN d[key] ELSE default

\* d with d[key] = val
SetItem(d, key, val) == [x \in DOMAIN d \cup {key} |-> IF x = key THEN val ELSE d[x]]

(***************************************************************************)
(* The persisted cache file.  A file content is [k, m, items]:             *)
(*   k = "absent"       no file                                            *)
(*   k = "garbage"      text that is not JSON (also an empty or a          *)
(*                      half-written file)                                 *)
(*   k = "undecodable"  bytes that are not text in the default encoding    *)
(*   k = "scalar"       a JSON number, true, false or null                 *)
(*   k = "list"         a JSON array or string; items: what "in" finds     *)
(*   k = "dict"         a JSON object; m: identifier -> entry              *)
(* An entry is [isdict, f]: f its fields when it is a JSON object.         *)
(***************************************************************************)
File(kind, m, items) == [k |-> kind, m |-> m, items |-> items]
FileAbsent == File("absent", EmptyDict, {})
FileGarbage == File("garbage", EmptyDict, {})
FileDict(m) == File("dict", m, {})

DictEntry(f) == [isdict |-> TRUE, f |-> f]
NonDictEntry == [isdict |-> FALSE, f |-> EmptyDict]

\* load_cache(): [raised, val]; val is the Python value json.load gave
load_cache(file) ==
    CASE file.k = "absent" -> [raised |-> FALSE, val |-> FileDict(EmptyDict)]
      [] file.k = "garbage" -> [raised |-> FALSE, val |-> FileDict(EmptyDict)]
      [] file.k = "undecodable" -> [raised |-> TRUE, val |-> FileDict(EmptyDict)]
      [] OTHER -> [raised |-> FALSE, val |-> file]

\* datetime.now().isoformat()
IsoFormat(now) == <<"T" \o ToString(now)>>

\* the entry save_to_cache stores (lines 75-81)
NewEntry(result, oem_spec, notes, now) ==
    DictEntry([result |-> PyStr(result),
               verified_by |-> PyStr(<<"human">>),
               oem_spec |-> oem_spec,
               timestamp |-> PyStr(IsoFormat(now)),
               notes |-> PyStr(notes)])

Effect(how, where, value, file, reads, writes, log) ==
    [outcome |-> how, path |-> where, ret |-> value, file |-> file,
     reads |-> reads, writes |-> writes, log |-> log]

\* the load, update and write of save_to_cache (lines 74-87); wr is how the
\* write went: "ok", "openfail" (open raised IOError, file untouched) or
\* "partial" (open truncated the file and the dump raised IOError)
store_entry(file, now, ic_part_number, result, oem_spec, notes, wr) ==
    LET loaded == load_cache(file)
        cache == loaded.val
        updated == FileDict(SetItem(cache.m, ic_part_number,
                                    NewEntry(result, oem_spec, notes, now)))
    IN  IF loaded.raised \/ cache.k # "dict"
        THEN Effect("raised", "raise", EmptyDict, file, 1, 0, <<>>)
        ELSE CASE wr = "ok" -> Effect("returned", "saved", EmptyDict, updated, 1, 1, <<>>)
               [] wr = "openfail" ->
                    Effect("returned", "writeerror", EmptyDict, file, 1, 1, <<>>)
               [] OTHER ->
                    Effect("returned", "writeerror", EmptyDict, FileGarbage, 1, 1, <<>>)

\* save_to_cache with the result check left out
save_to_cache_unchecked(file, now, ic_part_number, result, oem_spec, notes, wr) ==
    store_entry(file, now, ic_part_number, result, oem_spec, notes, wr)

\* save_to_cache(ic_part_number, result, oem_spec, notes) (lines 55-87)
save_to_cache(file, now, ic_part_number, result, oem_spec, notes, wr) ==
    IF result \notin {GENUINE, FAKE}
    THEN Effect("returned", "rejected", EmptyDict, file, 0, 0, <<>>)
    ELSE store_entry(file, now, ic_part_number, result, oem_spec, notes, wr)

(***************************************************************************)
(* Raw replies of the reasoning service: sequences of tokens [k, s, d].    *)
(*   k = "ws"     whitespace                                               *)
(*   k = "fence"  three backticks                                          *)
(*   k = "word"   a run of other characters that is not JSON; s its text   *)
(*   k = "doc"    the text of one JSON document; d its value               *)
(* A JSON value is [k, o]: k its kind, o its members when an object.       *)
(***************************************************************************)
NoDoc == [k |-> "none", o |-> EmptyDict]
Ws == [k |-> "ws", s |-> " ", d |-> NoDoc]
Fence == [k |-> "fence", s |-> "fence", d |-> NoDoc]
Word(w) == [k |-> "word", s |-> w, d |-> NoDoc]
Doc(j) == [k |-> "doc", s |-> "", d |-> j]
JObject(o) == [k |-> "object", o |-> o]
JArray == [k |-> "array", o |-> EmptyDict]

RECURSIVE LStripTok(_)
LStripTok(s) == IF s # <<>> /\ Head(s).k = "ws" THEN LStripTok(Tail(s)) ELSE s

RECURSIVE RStripTok(_)
RStripTok(s) ==
    IF s # <<>> /\ s[Len(s)].k = "ws" THEN RStripTok(SubSeq(s, 1, Len(s) - 1)) ELSE s

StripTok(s) == RStripTok(LStripTok(s))

\* a string member of the document holds the three fence characters
HoldsFence(j) ==
    /\ j.k = "object"
    /\ \E x \in DOMAIN j.o :
          j.o[x].t = "str" /\ \E i \in 1..Len(j.o[x].s) : j.o[x].s[i] = "fence"

\* the part of a document before the fence characters inside it
Torn == [k |-> "torn", s |-> "", d |-> NoDoc]

\* the tokens of s before its first fence
RECURSIVE UpToFence(_)
UpToFence(s) ==
    IF s = <<>> \/ Head(s).k = "fence" THEN <<>>
    ELSE IF Head(s).k = "doc" /\ HoldsFence(Head(s).d) THEN <<Torn>>
    ELSE <<Head(s)>> \o UpToFence(Tail(s))

\* s.split(fence)[1] for an s that starts with a fence
SplitSecond(s) == UpToFence(Tail(s))

\* str.lower() of a word
Lower(w) == CASE w = "JSON" -> "json" [] w = "Json" -> "json" [] OTHER -> w

\* s.lower().startswith("json")
StartsWithJson(s) == s # <<>> /\ Head(s).k = "word" /\ Lower(Head(s).s) \in {"json", "jsonc"}

\* s[4:] for an s for which StartsWithJson holds
DropFour(s) ==
    IF Lower(Head(s).s) = "json" THEN Tail(s) ELSE <<Word("c")>> \o Tail(s)

\* json.loads: [ok, v]; ok is FALSE for JSONDecodeError
JsonLoads(s) ==
    IF Len(s) = 1 /\ s[1].k = "doc"
    THEN [ok |-> TRUE, v |-> s[1].d]
    ELSE [ok |-> FALSE, v |-> NoDoc]

Invalid == [ok |-> FALSE, v |-> EmptyDict]

\* _parse_response(raw): [ok, v]; ok is FALSE where the code returns None
parse_response(raw) ==
    LET stripped == StripTok(raw)
        fenced == stripped # <<>> /\ Head(stripped).k = "fence"
        inner == SplitSecond(stripped)
        cleaned == IF ~fenced THEN stripped
                   ELSE IF StartsWithJson(inner) THEN DropFour(inner)
                   ELSE inner
        loaded == JsonLoads(StripTok(cleaned))
        verdict == loaded.v.o
    IN  IF ~loaded.ok THEN Invalid
        ELSE IF loaded.v.k # "object" THEN Invalid
        ELSE IF /\ Get(verdict, "result", PyNone).t = "str"
                /\ Get(verdict, "result", PyNone).s \in {GENUINE, FAKE, UNVERIFIABLE}
                /\ Get(verdict, "confidence", PyNone).t \in {"int", "bool"}
                /\ Get(verdict, "reasoning", PyNone).t = "str"
             THEN [ok |-> TRUE, v |-> verdict]
             ELSE Invalid

(***************************************************************************)
(* The reasoning service.  One call ends in an exception of the client     *)
(* ("fail": timeout, connection error, no choices) or in a reply.          *)
(***************************************************************************)
Fail == [k |-> "fail", raw |-> <<>>]
Reply(raw) == [k |-> "reply", raw |-> raw]

\* _call_groq_api(user_prompt): [none, raw]; none is TRUE where it returns None
call_groq_api(svc) ==
    IF svc.k = "reply"
    THEN [none |-> FALSE, raw |-> svc.raw]
    ELSE [none |-> TRUE, raw |-> <<>>]

\* a verdict dict literal of verify_ic
Verdict(result, confidence, reasoning) ==
    [result |-> result, confidence |-> confidence, reasoning |-> reasoning]

GuardVerdict ==
    Verdict(PyStr(UNVERIFIABLE), PyInt(0),
            PyStr(<<"OEM spec text is missing or empty. Cannot perform verification.">>))
FailVerdict ==
    Verdict(PyStr(UNVERIFIABLE), PyInt(0),
            PyStr(<<"API call failed. Unable to reach Groq service.">>))
RetryFailVerdict ==
    Verdict(PyStr(UNVERIFIABLE), PyInt(0),
            PyStr(<<"API call failed on retry. Unable to reach Groq service.">>))
\* the give-up verdict with the confidence of a guess
UnreadableVerdict_guess ==
    Verdict(PyStr(UNVERIFIABLE), PyInt(40),
            PyStr(<<"Model returned an unreadable response after two attempts.">>))
UnreadableVerdict ==
    Verdict(PyStr(UNVERIFIABLE), PyInt(0),
            PyStr(<<"Model returned an unreadable response after two attempts.">>))

\* the verdict built from a cache entry (lines 178-182)
CacheVerdict(cached) ==
    Verdict(cached["result"], PyInt(99),
            PyStr(Strip(<<"Previously verified by human QA on", " ">>
                        \o Fmt(cached["timestamp"]) \o <<".", " ">>
                        \o Fmt(Get(cached, "notes", PyStr(<<>>))))))

\* the guard without the strip
guard_no_strip(oem_spec_text) ==
    \/ oem_spec_text.t = "none"
    \/ oem_spec_text.s = <<>>

\* not oem_spec_text or not oem_spec_text.strip()
guard(oem_spec_text) ==
    \/ oem_spec_text.t = "none"
    \/ oem_spec_text.s = <<>>
    \/ Strip(oem_spec_text.s) = <<>>

\* what a call leaves through: [path, ret, log]
Leave(where, value, log) == [path |-> where, ret |-> value, log |-> log]

\* reasoning_call that calls again after a transport failure
reasoning_call_retry_failure(svc1, svc2) ==
    LET raw1 == call_groq_api(svc1)
        verdict1 == IF raw1.none THEN Invalid ELSE parse_response(raw1.raw)
        raw2 == call_groq_api(svc2)
        verdict2 == parse_response(raw2.raw)
    IN  IF verdict1.ok THEN Leave("reply1", verdict1.v, <<svc1>>)
        ELSE IF raw2.none THEN Leave("fail2", RetryFailVerdict, <<svc1, svc2>>)
        ELSE IF verdict2.ok THEN Leave("reply2", verdict2.v, <<svc1, svc2>>)
        ELSE Leave("unreadable", UnreadableVerdict, <<svc1, svc2>>)

\* reasoning_call that gives up after the first unusable reply
reasoning_call_no_retry(svc1, svc2) ==
    LET raw1 == call_groq_api(svc1)
        verdict1 == parse_response(raw1.raw)
    IN  IF raw1.none THEN Leave("fail1", FailVerdict, <<svc1>>)
        ELSE IF verdict1.ok THEN Leave("reply1", verdict1.v, <<svc1>>)
        ELSE Leave("unreadable", UnreadableVerdict, <<svc1>>)

\* reasoning_call that calls again but does not parse the second reply
reasoning_call_stale_verdict(svc1, svc2) ==
    LET raw1 == call_groq_api(svc1)
        verdict1 == parse_response(raw1.raw)
        raw2 == call_groq_api(svc2)
    IN  IF raw1.none THEN Leave("fail1", FailVerdict, <<svc1>>)
        ELSE IF verdict1.ok THEN Leave("reply1", verdict1.v, <<svc1>>)
        ELSE IF raw2.none THEN Leave("fail2", RetryFailVerdict, <<svc1, svc2>>)
        ELSE Leave("unreadable", UnreadableVerdict, <<svc1, svc2>>)

\* reasoning_call that caps the confidence of the first reply at 100
reasoning_call_capped(svc1, svc2) ==
    LET raw1 == call_groq_api(svc1)
        verdict1 == parse_response(raw1.raw)
        raw2 == call_groq_api(svc2)
        verdict2 == parse_response(raw2.raw)
        capped == IF verdict1.ok /\ verdict1.v["confidence"].n > 100
                  THEN SetItem(verdict1.v, "confidence", PyInt(100))
                  ELSE verdict1.v
    IN  IF raw1.none THEN Leave("fail1", FailVerdict, <<svc1>>)
        ELSE IF verdict1.ok THEN Leave("reply1", capped, <<svc1>>)
        ELSE IF raw2.none THEN Leave("fail2", RetryFailVerdict, <<svc1, svc2>>)
        ELSE IF verdict2.ok THEN Leave("reply2", verdict2.v, <<svc1, svc2>>)
        ELSE Leave("unreadable", UnreadableVerdict, <<svc1, svc2>>)

\* reasoning_call that asks a second time whatever the first reply was
reasoning_call_always_twice(svc1, svc2) ==
    LET raw1 == call_groq_api(svc1)
        verdict1 == parse_response(raw1.raw)
        raw2 == call_groq_api(svc2)
        verdict2 == parse_response(raw2.raw)
    IN  IF raw1.none THEN Leave("fail1", FailVerdict, <<svc1>>)
        ELSE IF raw2.none THEN Leave("fail2", RetryFailVerdict, <<svc1, svc2>>)
        ELSE IF verdict1.ok THEN Leave("reply1", verdict1.v, <<svc1, svc2>>)
        ELSE IF verdict2.ok THEN Leave("reply2", verdict2.v, <<svc1, svc2>>)
        ELSE Leave("unreadable", UnreadableVerdict, <<svc1, svc2>>)

\* steps 4-6 of verify_ic (lines 205-241); svc1, svc2 are what the service does
\* at the first and at the second call
reasoning_call(svc1, svc2) ==
    LET raw1 == call_groq_api(svc1)
        verdict1 == parse_response(raw1.raw)
        raw2 == call_groq_api(svc2)
        verdict2 == parse_response(raw2.raw)
    IN  IF raw1.none THEN Leave("fail1", FailVerdict, <<svc1>>)
        ELSE IF verdict1.ok THEN Leave("reply1", verdict1.v, <<svc1>>)
        ELSE IF raw2.none THEN Leave("fail2", RetryFailVerdict, <<svc1, svc2>>)
        ELSE IF verdict2.ok THEN Leave("reply2", verdict2.v, <<svc1, svc2>>)
        ELSE Leave("unreadable", UnreadableVerdict, <<svc1, svc2>>)

\* ic_part_number in cache; the caller has excluded the scalar
Contains(cache, ic_part_number) ==
    IF cache.k = "dict" THEN ic_part_number \in DOMAIN cache.m
    ELSE ic_part_number \in cache.items

\* the body of verify_ic (lines 174-241)
verify_ic_body(file, oem_spec_text, ic_part_number, svc1, svc2) ==
    LET loaded == load_cache(file)
        cache == loaded.val
        cached == cache.m[ic_part_number]
        after == reasoning_call(svc1, svc2)
        Raised == Effect("raised", "raise", EmptyDict, file, 1, 0, <<>>)
    IN  IF loaded.raised \/ cache.k = "scalar" THEN Raised
        ELSE IF Contains(cache, ic_part_number)
        THEN IF \/ cache.k # "dict"
                \/ ~cached.isdict
                \/ "result" \notin DOMAIN cached.f
                \/ "timestamp" \notin DOMAIN cached.f
             THEN Raised
             ELSE Effect("returned", "cache", CacheVerdict(cached.f), file, 1, 0, <<>>)
        ELSE IF guard(oem_spec_text)
        THEN Effect("returned", "guard", GuardVerdict, file, 1, 0, <<>>)
        ELSE Effect("returned", after.path, after.ret, file, 1, 0, after.log)

(***************************************************************************)
(* functools.lru_cache(maxsize=128) around verify_ic.                      *)
(***************************************************************************)
maxsize == 128

\* The key lru_cache makes of a call: the positional arguments, then a mark
\* and the keyword arguments.  how is the way the caller passes the three
\* arguments: "positional" (tests.py:46) or "keyword" (app.py:79-83).
Key(how, scanned_text, oem_spec_text, ic_part_number) ==
    <<how, scanned_text, oem_spec_text, ic_part_number>>

MemoIndex(m, key) ==
    IF \E i \in 1..Len(m) : m[i].key = key
    THEN CHOOSE i \in 1..Len(m) : m[i].key = key
    ELSE 0

Without(m, i) == SubSeq(m, 1, i - 1) \o SubSeq(m, i + 1, Len(m))

\* the memo after a miss that returned value
MemoStore(m, key, value) ==
    LET grown == Append(m, [key |-> key, val |-> value])
    IN  IF Len(grown) > maxsize THEN Tail(grown) ELSE grown

\* verify_ic that files the verdict of the service in the cache
verify_ic_recording(file, m, how, scanned_text, oem_spec_text, ic_part_number, svc1, svc2) ==
    LET eff == verify_ic_body(file, oem_spec_text, ic_part_number, svc1, svc2)
        entry == NewEntry(eff.ret["result"].s, oem_spec_text, <<>>, 0)
        filed == FileDict(SetItem(load_cache(file).val.m, ic_part_number, entry))
    IN  IF eff.path \in {"reply1", "reply2"}
        THEN [eff |-> [eff EXCEPT !.file = filed, !.writes = 1], memo |-> m]
        ELSE [eff |-> eff, memo |-> m]

\* verify_ic as callers see it (lines 147-241): [eff, memo]
verify_ic(file, m, how, scanned_text, oem_spec_text, ic_part_number, svc1, svc2) ==
    LET key == Key(how, scanned_text, oem_spec_text, ic_part_number)
        i == MemoIndex(m, key)
        eff == verify_ic_body(file, oem_spec_text, ic_part_number, svc1, svc2)
    IN  IF i # 0
        THEN [eff |-> Effect("returned", "memo", m[i].val, file, 0, 0, <<>>),
              memo |-> Append(Without(m, i), m[i])]
        ELSE IF eff.outcome = "raised"
        THEN [eff |-> eff, memo |-> m]
        ELSE [eff |-> eff, memo |-> MemoStore(m, key, eff.ret)]

(***************************************************************************)
(* datasheet.py.  A text is a Python str: a sequence of atoms, each a run  *)
(* of characters; "\n" and " " are atoms of their own.  The atoms come     *)
(* from a small vocabulary, for which upper(), len() and find() are given  *)
(* as tables; no pattern straddles two atoms of the vocabulary.            *)
(***************************************************************************)
KEYWORD_PATTERNS == <<"MARK", "ORDER", "PART", "DEVICE", "IDENT", "TOP">>
IGNORE_WORDS == <<"REVISION", "HISTORY", "CHANGE", "TABLE OF CONTENTS">>

\* str.upper() of an atom
UpperAtom(a) ==
    CASE a = "stm32f103c8t6" -> "STM32F103C8T6"
      [] a = "Top" -> "TOP"
      [] a = "Mark:" -> "MARK:"
      [] a = "Revision" -> "REVISION"
      [] a = "history" -> "HISTORY"
      [] a = "Department" -> "DEPARTMENT"
      [] a = "Pin" -> "PIN"
      [] a = "Package" -> "PACKAGE"
      [] a = "dimensions" -> "DIMENSIONS"
      [] a = "lm358n" -> "LM358N"
      [] a = "Order" -> "ORDER"
      [] a = "Device" -> "DEVICE"
      [] a = "Ident" -> "IDENT"
      [] a = "Change" -> "CHANGE"
      [] a = "Table of Contents" -> "TABLE OF CONTENTS"
      [] OTHER -> a

\* str.upper()
Upper(s) == [k \in 1..Len(s) |-> UpperAtom(s[k])]

\* len() of an atom
Chars(a) ==
    LET u == UpperAtom(a)
    IN  CASE u \in {" ", "\n", "1"} -> 1
          [] u \in {"TOP", "PIN", "LM("} -> 3
          [] u \in {"MARK", "PART"} -> 4
          [] u \in {"MARK:", "ORDER", "IDENT", "NE555", "LM358"} -> 5
          [] u \in {"DEVICE", "CHANGE", "LQFP48", "LM358N", "LM358."} -> 6
          [] u \in {"HISTORY", "PACKAGE"} -> 7
          [] u \in {"REVISION", "F103C8T6"} -> 8
          [] u \in {"DEPARTMENT", "DIMENSIONS"} -> 10
          [] u = "STM32F103C8T6" -> 13
          [] u = "TABLE OF CONTENTS" -> 17
          [] OTHER -> 0

\* len()
RECURSIVE CharLen(_)
CharLen(s) == IF s = <<>> THEN 0 ELSE Chars(Head(s)) + CharLen(Tail(s))

\* u.find(word) for an upper-case atom u: -1 when word does not occur in u
Find(word, u) ==
    CASE word = u \/ word = "" -> 0
      [] word = "MARK" /\ u = "MARK:" -> 0
      [] word = "LM358" /\ u \in {"LM358N", "LM358."} -> 0
      [] word = "PART" /\ u = "DEPARTMENT" -> 2
      [] OTHER -> -1

\* word in s
Within(word, s) == word = "" \/ \E k \in 1..Len(s) : Find(word, s[k]) >= 0

\* word in s[:limit]
InPrefix(word, s, limit) ==
    \E k \in 1..Len(s) :
        /\ Find(word, s[k]) >= 0
        /\ CharLen(SubSeq(s, 1, k - 1)) + Find(word, s[k]) + Chars(word) <= limit

\* score_page that looks for the IGNORE_WORDS in the whole page
score_page_whole(text, ic_name) ==
    LET text_upper == Upper(text)
        point(k) == IF Within(KEYWORD_PATTERNS[k], text_upper) THEN 1 ELSE 0
    IN  IF \E w \in 1..Len(IGNORE_WORDS) : Within(IGNORE_WORDS[w], text_upper)
        THEN 0
        ELSE (IF Within(UpperAtom(ic_name), text_upper) THEN 5 ELSE 0)
             + point(1) + point(2) + point(3) + point(4) + point(5) + point(6)

\* score_page(text, ic_name) (lines 67-79)
score_page(text, ic_name) ==
    LET text_upper == Upper(text)
        first_section == CharLen(text_upper) \div 5
        point(k) == IF Within(KEYWORD_PATTERNS[k], text_upper) THEN 1 ELSE 0
    IN  IF \E w \in 1..Len(IGNORE_WORDS) :
              InPrefix(IGNORE_WORDS[w], text_upper, first_section)
        THEN 0
        ELSE (IF Within(UpperAtom(ic_name), text_upper) THEN 5 ELSE 0)
             + point(1) + point(2) + point(3) + point(4) + point(5) + point(6)

\* text.split("\n")
RECURSIVE SplitLines(_)
SplitLines(s) ==
    IF \E k \in 1..Len(s) : s[k] = "\n"
    THEN LET k == CHOOSE x \in 1..Len(s) :
                     s[x] = "\n" /\ \A y \in 1..(x - 1) : s[y] # "\n"
         IN  <<SubSeq(s, 1, k - 1)>> \o SplitLines(SubSeq(s, k + 1, Len(s)))
    ELSE <<s>>

\* "\n".join(lines)
RECURSIVE JoinLines(_)
JoinLines(lines) ==
    IF lines = <<>> THEN <<>>
    ELSE IF Len(lines) = 1 THEN lines[1]
    ELSE lines[1] \o <<"\n">> \o JoinLines(Tail(lines))

\* re.compile(ic_name, re.IGNORECASE) (line 87): [raised, literal, dots].  The
\* pattern of an ic_name is a literal text followed by dots "." that each match
\* one character; raised is TRUE where the ic_name is no regular expression
\* and re.error is raised.
re_compile(ic_name) ==
    CASE ic_name = "LM(" -> [raised |-> TRUE, literal |-> "", dots |-> 0]
      [] ic_name = "LM358." -> [raised |-> FALSE, literal |-> "LM358", dots |-> 1]
      [] OTHER -> [raised |-> FALSE, literal |-> UpperAtom(ic_name), dots |-> 0]

\* ic_pattern.search(line) (line 93) for a line without "\n"
ReSearch(ic_pattern, line) ==
    LET upper == Upper(line)
    IN  \/ ic_pattern.literal = "" /\ ic_pattern.dots = 0
        \/ \E k \in 1..Len(upper) :
              /\ Find(ic_pattern.literal, upper[k]) >= 0
              /\ Chars(upper[k]) - Find(ic_pattern.literal, upper[k])
                    - Chars(ic_pattern.literal)
                    + CharLen(SubSeq(upper, k + 1, Len(upper))) >= ic_pattern.dots

\* extract_relevant_lines(text, ic_name) (lines 85-97): [raised, text]
extract_relevant_lines(text, ic_name) ==
    LET lines == SplitLines(text)
        ic_pattern == re_compile(ic_name)
        stripped == [k \in 1..Len(lines) |-> Strip(lines[k])]
        Keep(line_stripped) ==
            /\ line_stripped # <<>>
            /\ \/ ReSearch(ic_pattern, line_stripped)
               \/ \E k \in 1..Len(KEYWORD_PATTERNS) :
                     Within(KEYWORD_PATTERNS[k], Upper(line_stripped))
    IN  IF ic_pattern.raised
        THEN [raised |-> TRUE, text |-> <<>>]
        ELSE [raised |-> FALSE, text |-> JoinLines(SelectSeq(stripped, Keep))]

\* the loop over the pages taking a page that equals the best score so far
RECURSIVE BestText_last(_, _, _, _)
BestText_last(pages, ic_name, best_score, best_text) ==
    IF pages = <<>> THEN best_text
    ELSE IF score_page(Head(pages), ic_name) >= best_score
    THEN BestText_last(Tail(pages), ic_name, score_page(Head(pages), ic_name),
                       Head(pages))
    ELSE BestText_last(Tail(pages), ic_name, best_score, best_text)

\* the loop of extract_marking_section over the pages (lines 105-112)
RECURSIVE BestText(_, _, _, _)
BestText(pages, ic_name, best_score, best_text) ==
    IF pages = <<>> THEN best_text
    ELSE IF score_page(Head(pages), ic_name) > best_score
    THEN BestText(Tail(pages), ic_name, score_page(Head(pages), ic_name), Head(pages))
    ELSE BestText(Tail(pages), ic_name, best_score, best_text)

\* What a path holds: k = "pdf" for a document fitz can open, "corrupt" for
\* bytes it cannot; by is the invocation that downloaded it (0: nobody).
Pdf(pages, by) == [k |-> "pdf", pages |-> pages, by |-> by]
Corrupt(by) == [k |-> "corrupt", pages |-> <<>>, by |-> by]
NoFile == [k |-> "missing", pages |-> <<>>, by |-> 0]

\* A path: a file of the working directory ("tmp") or of FALLBACK_FOLDER.
Path(dir, name) == [dir |-> dir, name |-> name]
NoPath == Path("none", <<>>)

\* The disk is [tmp, fallback]: the files of each directory by name.
ReadAt(disk, pdf_path) ==
    IF pdf_path.name \in DOMAIN disk[pdf_path.dir]
    THEN disk[pdf_path.dir][pdf_path.name]
    ELSE NoFile

Remove(files, name) == [x \in DOMAIN files \ {name} |-> files[x]]

\* extract_marking_section that looks at the first page only
extract_marking_section_first_page(disk, pdf_path, ic_name, is_temp) ==
    LET content == ReadAt(disk, pdf_path)
        first_page == IF content.pages = <<>> THEN <<>> ELSE <<content.pages[1]>>
        best_text == BestText(first_page, ic_name, 0, <<>>)
    IN  [text |-> IF content.k = "pdf" /\ best_text # <<>>
                  THEN extract_relevant_lines(best_text, ic_name).text
                  ELSE <<>>,
         disk |-> IF is_temp /\ content.k # "missing"
                  THEN [disk EXCEPT ![pdf_path.dir] = Remove(@, pdf_path.name)]
                  ELSE disk]

\* extract_marking_section that removes whatever it has read
extract_marking_section_removing(disk, pdf_path, ic_name, is_temp) ==
    LET content == ReadAt(disk, pdf_path)
        best_text == BestText(content.pages, ic_name, 0, <<>>)
    IN  [text |-> IF content.k = "pdf" /\ best_text # <<>>
                  THEN extract_relevant_lines(best_text, ic_name).text
                  ELSE <<>>,
         disk |-> IF content.k # "missing"
                  THEN [disk EXCEPT ![pdf_path.dir] = Remove(@, pdf_path.name)]
                  ELSE disk]

\* extract_marking_section(pdf_path, ic_name, is_temp) (lines 102-122):
\* [text, disk]
extract_marking_section(disk, pdf_path, ic_name, is_temp) ==
    LET content == ReadAt(disk, pdf_path)
        best_text == BestText(content.pages, ic_name, 0, <<>>)
        result == IF content.k # "pdf" THEN <<>>
                  ELSE IF best_text # <<>>
                  THEN extract_relevant_lines(best_text, ic_name).text
                  ELSE <<>>
    IN  [text |-> result,
         disk |-> IF is_temp /\ content.k # "missing"
                  THEN [disk EXCEPT ![pdf_path.dir] = Remove(@, pdf_path.name)]
                  ELSE disk]

\* search_datasheet(ic_name) (lines 30-41); found is what the search engine
\* did: it raised, or gave hits, each an href that holds ".pdf" or not
search_datasheet(found) ==
    LET IsPdfLink(hit) == hit.pdf_in_url
    IN  IF found.raised THEN <<>> ELSE SelectSeq(found.hits, IsPdfLink)

\* f"{ic_name}_{int(time.time())}.pdf"
TempName(ic_name, t) == <<ic_name, t>>

\* download_pdf that writes the file and does not return its name
download_pdf_discarding(disk, t, url, ic_name, by) ==
    IF url.get = "pdf" /\ url.write # "openfail"
    THEN [pdf_file |-> NoPath,
          disk |-> [disk EXCEPT !.tmp = SetItem(@, TempName(ic_name, t), Corrupt(by))]]
    ELSE [pdf_file |-> NoPath, disk |-> disk]

\* download_pdf(url, ic_name) (lines 47-61) run by invocation by at second t:
\* [pdf_file, disk].  url.get is how requests.get went: "error" (it raised),
\* "status" (not 200), "html" (200, not application/pdf) or "pdf"; url.write
\* is how the write went: "ok", "openfail" or "partial" (file created, write
\* raised).
download_pdf(disk, t, url, ic_name, by) ==
    LET filename == Path("tmp", TempName(ic_name, t))
        holding(content) == [disk EXCEPT !.tmp = SetItem(@, filename.name, content)]
    IN  IF url.get # "pdf" \/ url.write = "openfail"
        THEN [pdf_file |-> NoPath, disk |-> disk]
        ELSE IF url.write = "partial"
        THEN [pdf_file |-> NoPath, disk |-> holding(Corrupt(by))]
        ELSE [pdf_file |-> filename,
              disk |-> holding([url.document EXCEPT !.by = by])]

\* the orders os.listdir may give the names in
Listings(names) ==
    {order \in [1..Cardinality(names) -> names] :
        \A x, y \in DOMAIN order : x # y => order[x] # order[y]}

\* load_fallback_pdfs() (lines 126-132) when os.listdir gives listing
load_fallback_pdfs(dir, listing) ==
    LET EndsWithPdf(name) == name.ext = "pdf"
        InFolder(name) == Path("fallback", name)
        chosen == SelectSeq(listing, EndsWithPdf)
    IN  IF dir.exists THEN [k \in 1..Len(chosen) |-> InFolder(chosen[k])] ELSE <<>>

(***************************************************************************)
(* Inputs.                                                                 *)
(***************************************************************************)
PartNumbers == {"X", "Y"}
ScannedTexts == {"X"}
RefText == PyStr(<<"STM32F103C8T6">>)
OemTexts == {PyNone, PyStr(<<>>), PyStr(<<" ", " ">>), RefText}
Results == {GENUINE, FAKE, UNVERIFIABLE}
Notes == {<<>>}
WriteOutcomes == {"ok", "openfail", "partial"}

Object(result, confidence) ==
    JObject(Verdict(PyStr(result), confidence, PyStr(<<"because">>)))

RawGenuine == <<Doc(Object(GENUINE, PyInt(95)))>>
RawUnverifiable == <<Doc(Object(UNVERIFIABLE, PyInt(10)))>>
RawOutOfRange ==
    <<Doc(JObject(SetItem(Verdict(PyStr(FAKE), PyInt(150), PyStr(<<"because">>)),
                          "model", PyStr(<<"llama">>))))>>
RawFenced == <<Fence, Word("json"), Ws, Doc(Object(FAKE, PyInt(92))), Ws, Fence>>
RawProse == <<Word("Sorry"), Ws, Word("no")>>

Raws == {RawGenuine, RawUnverifiable, RawOutOfRange, RawFenced, RawProse}

ServiceOutcomes == {Fail} \cup {Reply(raw) : raw \in Raws}

\* entries a cache file may hold when the process starts
GoodEntry == NewEntry(GENUINE, RefText, <<"ok">>, 0)
Dropping(entry, field) ==
    DictEntry([x \in DOMAIN entry.f \ {field} |-> entry.f[x]])
OddEntry == DictEntry(SetItem(GoodEntry.f, "result", PyStr(UNVERIFIABLE)))

StartFiles ==
    {FileAbsent, FileGarbage, FileDict(EmptyDict),
     File("undecodable", EmptyDict, {}),
     File("scalar", EmptyDict, {}),
     File("list", EmptyDict, {"X"}),
     FileDict(SetItem(EmptyDict, "X", GoodEntry)),
     FileDict(SetItem(EmptyDict, "X", Dropping(GoodEntry, "notes"))),
     FileDict(SetItem(EmptyDict, "X", Dropping(GoodEntry, "result"))),
     FileDict(SetItem(EmptyDict, "X", Dropping(GoodEntry, "timestamp"))),
     FileDict(SetItem(EmptyDict, "X", OddEntry)),
     FileDict(SetItem(EmptyDict, "X", NonDictEntry))}

CallStyles == {"positional", "keyword"}

NoCall == [op |-> "none", how |-> "", scanned |-> "", oem |-> PyNone, id |-> "",
           result |-> <<>>, notes |-> <<>>]

\* _parse_response has not been called alone
NotParsed == [done |-> FALSE, ok |-> FALSE, v |-> EmptyDict]

(***************************************************************************)
(* The state machine: one process, calls made one after the other.         *)
(***************************************************************************)
EngineInit ==
    /\ cacheFile \in StartFiles
    /\ memo = <<>>
    /\ clock = 0
    /\ call = NoCall
    /\ outcome = "none"
    /\ ret = EmptyDict
    /\ apiLog = <<>>
    /\ path = "none"
    /\ fileReads = 0
    /\ fileWrites = 0

ValidatorIdle == rawReply = <<>> /\ parseOut = NotParsed

\* no get_marking_from_datasheet invocation
SheetIdle ==
    /\ tmpFiles = <<>>
    /\ fallbackDir = [exists |-> FALSE, files |-> <<>>]
    /\ second = 0
    /\ proc = <<>>

\* no datasheet.py function called alone
NoText == [fn |-> "none", pages |-> <<>>, ic_name |-> ""]
NoTextOut == [done |-> FALSE, raised |-> FALSE, score |-> 0, text |-> <<>>]
TextIdle == textIn = NoText /\ textOut = NoTextOut

\* no save_to_cache call in a process of its own
SaversIdle == savers = <<>>

Init == EngineInit /\ ValidatorIdle /\ SheetIdle /\ TextIdle /\ SaversIdle

Apply(eff) ==
    /\ cacheFile' = eff.file
    /\ outcome' = eff.outcome
    /\ ret' = eff.ret
    /\ apiLog' = eff.log
    /\ path' = eff.path
    /\ fileReads' = eff.reads
    /\ fileWrites' = eff.writes
    /\ clock' = clock + 1

\* The service is asked only by a call that reaches it: what it would have
\* answered to a call that is not made is left out (fixed to Fail).
Asked(file, m, how, s, o, id, svc1, n) ==
    Len(verify_ic(file, m, how, s, o, id, svc1, Fail).eff.log) >= n

\* one call of verify_ic, its arguments and the service's answers drawn from
\* the given sets
VerifyIcWith(styles, texts, ids, answers) ==
    /\ clock < MaxOps
    /\ \E how \in styles, s \in ScannedTexts, o \in texts, id \in ids :
       \E svc1 \in IF Asked(cacheFile, memo, how, s, o, id, Fail, 1)
                   THEN answers ELSE {Fail} :
       \E svc2 \in IF Asked(cacheFile, memo, how, s, o, id, svc1, 2)
                   THEN answers ELSE {Fail} :
          LET r == verify_ic(cacheFile, memo, how, s, o, id, svc1, svc2)
          IN  /\ Apply(r.eff)
              /\ memo' = r.memo
              /\ call' = [op |-> "verify", how |-> how, scanned |-> s, oem |-> o,
                          id |-> id, result |-> <<>>, notes |-> <<>>]
    /\ UNCHANGED <<validatorVars, sheetVars, textVars, savers>>

\* verify_ic as app.py calls it
VerifyIc == VerifyIcWith({"keyword"}, OemTexts, PartNumbers, ServiceOutcomes)

\* verify_ic called either way, as app.py and tests.py do between them
VerifyIcAnyStyle ==
    VerifyIcWith(CallStyles, {PyStr(<<>>), RefText}, {"X"}, {Fail, Reply(RawGenuine)})

SaveToCache ==
    /\ clock < MaxOps
    /\ \E id \in PartNumbers, result \in Results, notes \in Notes,
          wr \in WriteOutcomes :
          /\ Apply(save_to_cache(cacheFile, clock + 1, id, result, RefText, notes, wr))
          /\ memo' = memo
          /\ call' = [op |-> "save", how |-> "positional", scanned |-> "",
                      oem |-> RefText, id |-> id,
                      result |-> result, notes |-> notes]
    /\ UNCHANGED <<validatorVars, sheetVars, textVars, savers>>

Next == VerifyIc \/ SaveToCache

Spec == Init /\ [][Next]_vars

NextAnyStyle == VerifyIcAnyStyle \/ SaveToCache

SpecStyles == Init /\ [][NextAnyStyle]_vars

(***************************************************************************)
(* _parse_response called alone on one reply, as TestParseResponse does.   *)
(***************************************************************************)
JScalar == [k |-> "scalar", o |-> EmptyDict]

\* a member the reply leaves out
Missing == [t |-> "missing", n |-> 0, s |-> <<>>]

ResultChoices ==
    {Missing, PyNone, PyInt(1), PyStr(GENUINE), PyStr(FAKE), PyStr(UNVERIFIABLE),
     PyStr(<<"MAYBE">>), PyStr(<<"genuine">>)}
ConfidenceChoices ==
    {Missing, PyNone, PyInt(95), PyInt(0), PyInt(150), PyInt(-1), PyBool(TRUE),
     PyBool(FALSE), PyFloat(95), PyStr(<<"95">>)}
ReasoningChoices ==
    {Missing, PyNone, PyInt(3), PyStr(<<"because">>), PyStr(<<>>),
     PyStr(<<"see", " ", "fence", " ", "mark">>)}

\* the JSON object with the members that are not left out
ObjectOf(result, confidence, reasoning) ==
    LET all == Verdict(result, confidence, reasoning)
    IN  JObject([x \in {y \in DOMAIN all : all[y] # Missing} |-> all[x]])

Documents ==
    {JArray, JScalar}
    \cup {ObjectOf(r, c, s) : r \in ResultChoices, c \in ConfidenceChoices,
                             s \in ReasoningChoices}

\* the ways a reply carries a document (MARKDOWN_JSON of tests.py:34 is the third)
Wrappings(j) ==
    {<<Doc(j)>>,
     <<Ws, Doc(j), Ws>>,
     <<Fence, Word("json"), Ws, Doc(j), Ws, Fence>>,
     <<Ws, Fence, Ws, Doc(j), Ws, Fence, Ws>>,
     <<Word("Here"), Ws, Doc(j)>>,
     <<Fence, Word("JSON"), Ws, Doc(j), Ws, Fence>>,
     <<Ws, Fence, Word("python"), Ws, Doc(j), Ws, Fence, Ws>>}

ParseInputs ==
    {<<>>, <<Ws>>, RawProse, <<Fence>>, <<Fence, Word("json"), Ws, Fence>>}
    \cup UNION {Wrappings(j) : j \in Documents}

EngineIdle == EngineInit /\ cacheFile = FileAbsent

ParseInit ==
    /\ EngineIdle
    /\ rawReply \in ParseInputs
    /\ parseOut = NotParsed
    /\ SheetIdle
    /\ TextIdle
    /\ SaversIdle

Parse ==
    /\ ~parseOut.done
    /\ LET verdict == parse_response(rawReply)
       IN  parseOut' = [done |-> TRUE, ok |-> verdict.ok, v |-> verdict.v]
    /\ UNCHANGED <<rawReply, engineVars, sheetVars, textVars, savers>>

SpecParse == ParseInit /\ [][Parse]_vars

(***************************************************************************)
(* get_marking_from_datasheet: invocations that share a working directory  *)
(* and FALLBACK_FOLDER.  An invocation takes one step per request, per     *)
(* document it opens and per directory listing.                            *)
(***************************************************************************)
MaxTick == 1

Identifiers == {"STM32F103C8T6", "NE555"}

PageMarking ==
    <<"Top", " ", "Mark:", " ", "F103C8T6", "\n", " ", "\n",
      "stm32f103c8t6", " ", "LQFP48", "\n", "Pin", " ", "1">>
PagePlain == <<"Package", " ", "dimensions", "\n", "Pin", " ", "1">>
PageHistory ==
    <<"Revision", " ", "history", "\n", "STM32F103C8T6", " ", "Top", " ", "Mark:",
      "\n", "Package", " ", "dimensions", " ", "LQFP48">>

DocMarking == Pdf(<<PageHistory, PagePlain, PageMarking>>, 0)
DocPlain == Pdf(<<PagePlain, PageHistory>>, 0)
DocNoPages == Pdf(<<>>, 0)

Link(get, write, document) == [get |-> get, write |-> write, document |-> document]
LinkError == Link("error", "ok", NoFile)
LinkStatus == Link("status", "ok", NoFile)
LinkHtml == Link("html", "ok", NoFile)
LinkOpenFail == Link("pdf", "openfail", DocMarking)
LinkPartial == Link("pdf", "partial", DocMarking)
LinkMarking == Link("pdf", "ok", DocMarking)
LinkPlain == Link("pdf", "ok", DocPlain)
LinkCorrupt == Link("pdf", "ok", Corrupt(0))
LinkNoPages == Link("pdf", "ok", DocNoPages)

Hit(url) == [pdf_in_url |-> TRUE, url |-> url]
PageHit == [pdf_in_url |-> FALSE, url |-> LinkHtml]

Found(hits) == [raised |-> FALSE, hits |-> hits]
SearchError == [raised |-> TRUE, hits |-> <<>>]

FirstLinks ==
    {LinkError, LinkStatus, LinkHtml, LinkOpenFail, LinkPartial, LinkMarking,
     LinkPlain, LinkCorrupt, LinkNoPages}
SecondLinks == {LinkError, LinkPartial, LinkMarking, LinkPlain}

\* what the search may do when one invocation runs alone
SearchOutcomes ==
    {SearchError, Found(<<>>), Found(<<PageHit>>), Found(<<PageHit, Hit(LinkMarking)>>)}
    \cup {Found(<<Hit(a)>>) : a \in FirstLinks}
    \cup {Found(<<Hit(a), Hit(b)>>) : a \in FirstLinks, b \in SecondLinks}

\* what the search may do when invocations run side by side
SharedSearchOutcomes ==
    {Found(<<>>), Found(<<Hit(LinkMarking)>>), Found(<<Hit(LinkPlain)>>),
     Found(<<Hit(LinkPartial), Hit(LinkPlain)>>)}

FileName(stem, ext) == [stem |-> stem, ext |-> ext]
Folder(files) == [exists |-> TRUE, files |-> files]
NoFolder == [exists |-> FALSE, files |-> <<>>]

FallbackDirs ==
    {NoFolder,
     Folder(<<>>),
     Folder(SetItem(<<>>, FileName("a", "pdf"), DocMarking)),
     Folder(SetItem(SetItem(<<>>, FileName("a", "pdf"), Corrupt(0)),
                    FileName("b", "pdf"), DocMarking)),
     Folder(SetItem(SetItem(<<>>, FileName("a", "pdf"), DocPlain),
                    FileName("notes", "txt"), DocMarking))}

SharedFallbackDirs ==
    {NoFolder, Folder(SetItem(<<>>, FileName("a", "pdf"), DocMarking))}

Invocations == {1, 2}

\* an invocation that has not started
IdleProc ==
    [pc |-> "idle", ic_name |-> "", links |-> <<>>, i |-> 1, pdf_file |-> NoPath,
     fallback_pdfs |-> <<>>, j |-> 1, text |-> <<>>, trace |-> <<>>]

SheetInit(procs, dirs) ==
    /\ EngineIdle
    /\ ValidatorIdle
    /\ tmpFiles = <<>>
    /\ fallbackDir \in dirs
    /\ second = 0
    /\ proc = [p \in procs |-> IdleProc]
    /\ TextIdle
    /\ SaversIdle

TheDisk == [tmp |-> tmpFiles, fallback |-> fallbackDir.files]

PutDisk(disk) ==
    /\ tmpFiles' = disk.tmp
    /\ fallbackDir' = [fallbackDir EXCEPT !.files = disk.fallback]

Event(ev, from, n) == [ev |-> ev, from |-> from, n |-> n]

Running(p) == p \in DOMAIN proc

\* lines 138-140: the call and the search
Start(p) ==
    /\ Running(p)
    /\ proc[p].pc = "idle"
    /\ \E ic_name \in Identifiers,
          found \in IF Cardinality(DOMAIN proc) = 1
                    THEN SearchOutcomes ELSE SharedSearchOutcomes :
          proc' = [proc EXCEPT ![p] = [@ EXCEPT !.pc = "online",
                                                !.ic_name = ic_name,
                                                !.links = search_datasheet(found)]]
    /\ UNCHANGED <<tmpFiles, fallbackDir, second, engineVars, validatorVars, textVars, savers>>

\* lines 141-143: download_pdf for the next link
Download(p) ==
    LET me == proc[p]
        got == download_pdf(TheDisk, second, me.links[me.i].url, me.ic_name, p)
        seen == Append(me.trace, Event("download", "online", me.i))
    IN  /\ Running(p)
        /\ me.pc = "online"
        /\ me.i <= Len(me.links)
        /\ PutDisk(got.disk)
        /\ proc' = [proc EXCEPT ![p] =
                      IF got.pdf_file # NoPath
                      THEN [me EXCEPT !.pc = "extract", !.pdf_file = got.pdf_file,
                                      !.trace = seen]
                      ELSE [me EXCEPT !.i = me.i + 1, !.trace = seen]]
        /\ second' = second
        /\ UNCHANGED <<engineVars, validatorVars, textVars, savers>>

\* lines 145-147: extract_marking_section on the downloaded file
Extract(p) ==
    LET me == proc[p]
        got == extract_marking_section(TheDisk, me.pdf_file, me.ic_name, TRUE)
        seen == Append(me.trace, Event("open", "online", me.i))
    IN  /\ Running(p)
        /\ me.pc = "extract"
        /\ PutDisk(got.disk)
        /\ proc' = [proc EXCEPT ![p] =
                      IF got.text # <<>>
                      THEN [me EXCEPT !.pc = "done", !.text = got.text,
                                      !.pdf_file = NoPath, !.trace = seen]
                      ELSE [me EXCEPT !.pc = "online", !.i = me.i + 1,
                                      !.pdf_file = NoPath, !.trace = seen]]
        /\ second' = second
        /\ UNCHANGED <<engineVars, validatorVars, textVars, savers>>

\* line 150: load_fallback_pdfs once the links are used up
ListFallback(p) ==
    LET me == proc[p]
    IN  /\ Running(p)
        /\ me.pc = "online"
        /\ me.i > Len(me.links)
        /\ \E listing \in Listings(DOMAIN fallbackDir.files) :
              proc' = [proc EXCEPT ![p] =
                         [me EXCEPT !.pc = "fallback",
                                    !.fallback_pdfs =
                                        load_fallback_pdfs(fallbackDir, listing)]]
        /\ UNCHANGED <<tmpFiles, fallbackDir, second, engineVars, validatorVars, textVars, savers>>

\* lines 151-155: extract_marking_section on the next fallback document
ExtractFallback(p) ==
    LET me == proc[p]
        got == extract_marking_section(TheDisk, me.fallback_pdfs[me.j],
                                       me.ic_name, FALSE)
        seen == Append(me.trace, Event("open", "fallback", me.j))
    IN  /\ Running(p)
        /\ me.pc = "fallback"
        /\ me.j <= Len(me.fallback_pdfs)
        /\ PutDisk(got.disk)
        /\ proc' = [proc EXCEPT ![p] =
                      IF got.text # <<>>
                      THEN [me EXCEPT !.pc = "done", !.text = got.text, !.trace = seen]
                      ELSE [me EXCEPT !.j = me.j + 1, !.trace = seen]]
        /\ second' = second
        /\ UNCHANGED <<engineVars, validatorVars, textVars, savers>>

\* line 158: nothing found
GiveUp(p) ==
    LET me == proc[p]
    IN  /\ Running(p)
        /\ me.pc = "fallback"
        /\ me.j > Len(me.fallback_pdfs)
        /\ proc' = [proc EXCEPT ![p] = [me EXCEPT !.pc = "done", !.text = <<>>]]
        /\ UNCHANGED <<tmpFiles, fallbackDir, second, engineVars, validatorVars, textVars, savers>>

\* the clock of time.time() reaches the next second
Tick ==
    /\ second < MaxTick
    /\ \E p \in DOMAIN proc : proc[p].pc \notin {"idle", "done"}
    /\ second' = second + 1
    /\ UNCHANGED <<tmpFiles, fallbackDir, proc, engineVars, validatorVars, textVars, savers>>

NextSheet ==
    \/ \E p \in Invocations : Start(p)
    \/ \E p \in Invocations : Download(p)
    \/ \E p \in Invocations : Extract(p)
    \/ \E p \in Invocations : ListFallback(p)
    \/ \E p \in Invocations : ExtractFallback(p)
    \/ \E p \in Invocations : GiveUp(p)
    \/ Tick

\* one invocation alone
SpecSheet == SheetInit({1}, FallbackDirs) /\ [][NextSheet]_vars

\* two invocations side by side
SpecSheets == SheetInit({1, 2}, SharedFallbackDirs) /\ [][NextSheet]_vars

(***************************************************************************)
(* score_page, extract_relevant_lines and extract_marking_section called   *)
(* alone on one text or one document.                                      *)
(***************************************************************************)
TextIdentifiers == {"STM32F103C8T6", "NE555", "", "LM358.", "LM("}

TextLines ==
    {<<>>,
     <<" ">>,
     <<"Top", " ", "Mark:">>,
     <<" ", "stm32f103c8t6", " ">>,
     <<"Revision", " ", "history">>,
     <<"Table of Contents">>,
     <<"Change">>,
     <<"Package", " ", "dimensions">>,
     <<"Package", " ", "dimensions", " ", "Package", " ", "dimensions", " ", "LQFP48">>,
     <<"Order", " ", "Device", " ", "Ident", " ", "Department">>,
     <<"LM358">>,
     <<"LM358", " ", "1">>,
     <<"lm358n">>,
     <<"LM358.">>}

\* the texts of one, two and three lines
Texts ==
    TextLines
    \cup {JoinLines(<<a, b>>) : a \in TextLines, b \in TextLines}
    \cup {JoinLines(<<a, b, c>>) : a \in TextLines, b \in TextLines, c \in TextLines}

PageTop == <<"Top", " ", "Mark:">>
PageMark == <<"Mark:", " ", "Top">>

SomePages == {PageMarking, PagePlain, PageHistory, PageTop, PageMark}

\* the page lists of documents of up to three pages
PageLists ==
    {<<>>}
    \cup {<<a>> : a \in SomePages}
    \cup {<<a, b>> : a \in SomePages, b \in SomePages}
    \cup {<<a, b, c>> : a \in SomePages, b \in SomePages, c \in SomePages}

TextCall(fn, pages, ic_name) == [fn |-> fn, pages |-> pages, ic_name |-> ic_name]

TextInit ==
    /\ EngineIdle
    /\ ValidatorIdle
    /\ SheetIdle
    /\ SaversIdle
    /\ textIn \in {TextCall("score", <<text>>, ic_name) :
                      text \in Texts, ic_name \in TextIdentifiers}
               \cup {TextCall("lines", <<text>>, ic_name) :
                      text \in Texts, ic_name \in TextIdentifiers}
               \cup {TextCall("section", pages, ic_name) :
                      pages \in PageLists, ic_name \in TextIdentifiers}
    /\ textOut = NoTextOut

TextFrame == UNCHANGED <<textIn, engineVars, validatorVars, sheetVars, savers>>

ScorePage ==
    /\ textIn.fn = "score"
    /\ ~textOut.done
    /\ textOut' = [NoTextOut EXCEPT !.done = TRUE,
                                    !.score = score_page(textIn.pages[1], textIn.ic_name)]
    /\ TextFrame

ExtractLines ==
    /\ textIn.fn = "lines"
    /\ ~textOut.done
    /\ LET got == extract_relevant_lines(textIn.pages[1], textIn.ic_name)
       IN  textOut' = [NoTextOut EXCEPT !.done = TRUE, !.raised = got.raised,
                                        !.text = got.text]
    /\ TextFrame

\* extract_marking_section on a fallback document that holds the pages
ExtractSection ==
    /\ textIn.fn = "section"
    /\ ~textOut.done
    /\ LET name == FileName("a", "pdf")
           disk == [tmp |-> <<>>, fallback |-> SetItem(<<>>, name, Pdf(textIn.pages, 0))]
           got == extract_marking_section(disk, Path("fallback", name),
                                          textIn.ic_name, FALSE)
       IN  textOut' = [NoTextOut EXCEPT !.done = TRUE, !.text = got.text]
    /\ TextFrame

NextText == ScorePage \/ ExtractLines \/ ExtractSection

SpecText == TextInit /\ [][NextText]_vars

(***************************************************************************)
(* Two processes that each call save_to_cache once on the same cache file. *)
(* A call is three steps: the check of the result (line 70), load_cache    *)
(* (line 74), and the update and write of the whole file (lines 75-87).    *)
(***************************************************************************)
Processes == {1, 2}

SaverFiles ==
    {FileAbsent, FileGarbage, FileDict(EmptyDict),
     FileDict(SetItem(EmptyDict, "Z", GoodEntry))}

\* one call: pc is "start", "checked", "loaded" or "done"; cache is what the
\* call's load_cache returned; saved tells that the call wrote the file
Saver(ic_part_number, result) ==
    [pc |-> "start", id |-> ic_part_number, result |-> result,
     cache |-> EmptyDict, saved |-> FALSE]

SaversInit ==
    /\ EngineInit
    /\ cacheFile \in SaverFiles
    /\ ValidatorIdle
    /\ SheetIdle
    /\ TextIdle
    /\ savers \in [Processes -> {Saver(id, result) : id \in PartNumbers, result \in Results}]

SaversFrame ==
    UNCHANGED <<memo, call, outcome, ret, apiLog, path, fileReads, fileWrites,
                validatorVars, sheetVars, textVars>>

\* the check of the result (lines 70-72)
CheckResult(p) ==
    /\ savers[p].pc = "start"
    /\ savers' = [savers EXCEPT ![p].pc = IF savers[p].result \in {GENUINE, FAKE}
                                          THEN "checked" ELSE "done"]
    /\ UNCHANGED <<cacheFile, clock>>
    /\ SaversFrame

\* cache = load_cache() (line 74)
LoadCache(p) ==
    /\ savers[p].pc = "checked"
    /\ savers' = [savers EXCEPT ![p].pc = "loaded",
                                ![p].cache = load_cache(cacheFile).val.m]
    /\ UNCHANGED <<cacheFile, clock>>
    /\ SaversFrame

\* the update of the loaded dict and the write of the file (lines 75-87)
WriteCache(p) ==
    /\ savers[p].pc = "loaded"
    /\ \E wr \in WriteOutcomes :
          LET entry == NewEntry(savers[p].result, RefText, <<>>, clock + 1)
              written == store_entry(FileDict(savers[p].cache), clock + 1, savers[p].id,
                                     savers[p].result, RefText, <<>>, "ok").file
          IN  /\ cacheFile' = CASE wr = "ok" -> written
                                [] wr = "openfail" -> cacheFile
                                [] OTHER -> FileGarbage
              /\ savers' = [savers EXCEPT ![p].pc = "done",
                                          ![p].cache = SetItem(savers[p].cache,
                                                               savers[p].id, entry),
                                          ![p].saved = (wr = "ok")]
    /\ clock' = clock + 1
    /\ SaversFrame

NextSavers ==
    \/ \E p \in Processes : CheckResult(p)
    \/ \E p \in Processes : LoadCache(p)
    \/ \E p \in Processes : WriteCache(p)

SpecSavers == SaversInit /\ [][NextSavers]_vars

\* a process that starts on an empty or absent store
FreshInit == Init /\ cacheFile \in {FileAbsent, FileDict(EmptyDict)}

SpecFresh == FreshInit /\ [][Next]_vars

(***************************************************************************)
(* Properties.                                                             *)
(***************************************************************************)
Returned == call.op = "verify" /\ outcome = "returned"

\* an empty, None or whitespace-only reference text
IsBlank(text) == text.t = "none" \/ \A i \in 1..Len(text.s) : IsWs(text.s[i])

HasEntry(file, id) == file.k = "dict" /\ id \in DOMAIN file.m

IsUnverifiableZero(v) ==
    /\ Get(v, "result", PyNone) = PyStr(UNVERIFIABLE)
    /\ Get(v, "confidence", PyNone) = PyInt(0)

InvalidReply(svc) == svc.k = "reply" /\ ~parse_response(svc.raw).ok
ValidReply(svc) == svc.k = "reply" /\ parse_response(svc.raw).ok

\* C1: every verdict verify_ic returns has exactly the fields result,
\* confidence and reasoning, a result among the three and an integer
\* confidence in 0..100.
C1_VerdictWellFormed ==
    Returned =>
        /\ DOMAIN ret = {"result", "confidence", "reasoning"}
        /\ ret["result"].t = "str"
        /\ ret["result"].s \in {GENUINE, FAKE, UNVERIFIABLE}
        /\ ret["confidence"].t = "int"
        /\ ret["confidence"].n \in 0..100

\* C2: verify_ic never raises: every call ends by returning.
C2_NeverRaises == call.op = "verify" => outcome = "returned"

C4_CachedIdentifierServed ==
    Returned /\ HasEntry(cacheFile, call.id) =>
        /\ Get(ret, "confidence", PyNone) = PyInt(99)
        /\ Get(ret, "result", PyNone) = Get(cacheFile.m[call.id].f, "result", PyNone)
        /\ apiLog = <<>>

\* C5: when the first service call ends in a transport failure, it is the only
\* call of the invocation and the verdict is UNVERIFIABLE with confidence 0.
C5_TransportFailureNoRetry ==
    Returned /\ apiLog # <<>> /\ apiLog[1].k = "fail" =>
        Len(apiLog) = 1 /\ IsUnverifiableZero(ret)

C5_Witness == Returned /\ apiLog = <<Fail>> /\ path = "fail1"

\* C6: when the first reply fails validation a second call is made, and when
\* the second reply fails validation too the verdict is UNVERIFIABLE with
\* confidence 0, after exactly two calls.
C6_TwoInvalidReplies ==
    Returned /\ apiLog # <<>> /\ InvalidReply(apiLog[1]) =>
        /\ Len(apiLog) = 2
        /\ (InvalidReply(apiLog[2]) => IsUnverifiableZero(ret))

C6_Witness ==
    /\ Returned
    /\ Len(apiLog) = 2
    /\ InvalidReply(apiLog[1])
    /\ InvalidReply(apiLog[2])
    /\ path = "unreadable"

\* C7: when the first reply fails validation and the second is valid, exactly
\* two calls are made and the verdict is the one parsed from the second reply.
C7_RetryVerdictIsSecondReply ==
    Returned /\ apiLog # <<>> /\ InvalidReply(apiLog[1]) =>
        /\ Len(apiLog) = 2
        /\ (ValidReply(apiLog[2]) => ret = parse_response(apiLog[2].raw).v)

C7_Witness ==
    /\ Returned
    /\ apiLog = <<Reply(RawProse), Reply(RawFenced)>>
    /\ ret = Object(FAKE, PyInt(92)).o

\* C8 as stated: every UNVERIFIABLE verdict has confidence 0.
C8_UnverifiableHasZeroConfidence ==
    Returned /\ Get(ret, "result", PyNone) = PyStr(UNVERIFIABLE) =>
        Get(ret, "confidence", PyNone) = PyInt(0)

FromReply(v) == \E raw \in Raws : parse_response(raw).ok /\ parse_response(raw).v = v

FromCacheEntry(v) ==
    /\ Get(v, "confidence", PyNone) = PyInt(99)
    /\ Get(v, "reasoning", PyNone).s # <<>>
    /\ Get(v, "reasoning", PyNone).s[1] = "Previously verified by human QA on"

\* C8 as amended: the UNVERIFIABLE verdicts verify_ic builds itself (guard
\* clause, transport failure at either call, two unusable replies) have
\* confidence 0; any other UNVERIFIABLE verdict is a validated reply of the
\* service, passed through with the reply's confidence, or is built from a
\* cache entry, with confidence 99.
C8_BuiltUnverifiableHasZeroConfidence ==
    Returned =>
        /\ (path \in {"guard", "fail1", "fail2", "unreadable"} => IsUnverifiableZero(ret))
        /\ (Get(ret, "result", PyNone) = PyStr(UNVERIFIABLE) =>
                \/ Get(ret, "confidence", PyNone) = PyInt(0)
                \/ FromReply(ret)
                \/ FromCacheEntry(ret))

C8_Witness == Returned /\ path = "unreadable" /\ IsUnverifiableZero(ret)

\* C9: a put with a result other than GENUINE or FAKE returns without reading
\* or writing the store and leaves it unchanged; from an empty or absent
\* store, every entry's result is GENUINE or FAKE.
C9_RejectedPutWritesNothing ==
    /\ [][(call'.op = "save" /\ call'.result \notin {GENUINE, FAKE}) =>
            /\ cacheFile' = cacheFile
            /\ outcome' = "returned"
            /\ fileReads' = 0
            /\ fileWrites' = 0]_vars
    /\ [](\A id \in DOMAIN cacheFile.m :
            /\ cacheFile.m[id].isdict
            /\ Get(cacheFile.m[id].f, "result", PyNone) \in {PyStr(GENUINE), PyStr(FAKE)})

C9_Witness ==
    /\ call.op = "save"
    /\ call.result = UNVERIFIABLE
    /\ path = "rejected"
    /\ HasEntry(cacheFile, "X")
    /\ ~HasEntry(cacheFile, call.id)

\* C10: no verify_ic call creates, changes or removes a cache entry, or opens
\* the cache file for writing.
C10_VerifyLeavesCacheAlone ==
    [][call'.op = "verify" /\ clock' # clock =>
            cacheFile' = cacheFile /\ fileWrites' = 0]_vars

C10_Witness ==
    /\ Returned
    /\ path = "reply1"
    /\ Get(ret, "result", PyNone) = PyStr(GENUINE)
    /\ cacheFile = FileDict(EmptyDict)


\* C11: a successful save_to_cache(id, r, ...) leaves the store mapping id to
\* an entry with result r, and no step removes or changes the entry of any
\* other identifier: entries are never removed by any operation.
C11_PutsKeepEntries ==
    [][/\ (call'.op = "save" /\ path' = "saved")
            => /\ HasEntry(cacheFile', call'.id)
               /\ cacheFile'.m[call'.id].isdict
               /\ cacheFile'.m[call'.id].f["result"] = PyStr(call'.result)
       /\ \A id \in PartNumbers :
            (HasEntry(cacheFile, id)
               /\ ~(call'.op = "save" /\ call'.id = id /\ path' = "saved"))
            => /\ HasEntry(cacheFile', id)
               /\ cacheFile'.m[id] = cacheFile.m[id]]_vars


\* the arguments of a memoized call, however they were passed
Triple(key) == <<key[2], key[3], key[4]>>

\* C12: a verify_ic call whose triple (scanned text, reference text,
\* identifier) equals that of an earlier call still in the memoization window
\* returns the verdict of that earlier call and neither reads the persisted
\* cache nor calls the reasoning service.
C12_SameTripleServedFromMemo ==
    [][(/\ call'.op = "verify"
        /\ \E i \in 1..Len(memo) :
              Triple(memo[i].key) = <<call'.scanned, call'.oem, call'.id>>)
       => /\ outcome' = "returned"
          /\ \E i \in 1..Len(memo) :
                /\ Triple(memo[i].key) = <<call'.scanned, call'.oem, call'.id>>
                /\ ret' = memo[i].val
          /\ fileReads' = 0
          /\ apiLog' = <<>>]_vars

\* C13: memoization is only an optimization: a verdict served from the memo
\* is a verdict the engine without the memo could return for the same
\* arguments in the present state of the persisted cache.
C13_MemoIsOnlyAnOptimization ==
    Returned /\ path = "memo" =>
        \E svc1 \in ServiceOutcomes, svc2 \in ServiceOutcomes :
            LET plain == verify_ic_body(cacheFile, call.oem, call.id, svc1, svc2)
            IN  plain.outcome = "returned" /\ plain.ret = ret


\* the document a reply carries once surrounding whitespace and one layer of
\* fenced-code wrapping (with its optional json tag) are taken off
Payload(reply) ==
    LET s == StripTok(reply)
        inner == IF Len(s) >= 2 /\ s[1].k = "fence" /\ s[Len(s)].k = "fence"
                 THEN StripTok(SubSeq(s, 2, Len(s) - 1))
                 ELSE s
        body == IF inner # <<>> /\ inner[1] = Word("json")
                THEN StripTok(Tail(inner)) ELSE inner
    IN  IF Len(body) = 1 /\ body[1].k = "doc" THEN body[1].d ELSE NoDoc

\* a JSON object with an enumerated result, an integer confidence that is no
\* boolean, float or string, and a string reasoning
WellFormedReply(reply) ==
    LET j == Payload(reply)
    IN  /\ j.k = "object"
        /\ {"result", "confidence", "reasoning"} \subseteq DOMAIN j.o
        /\ j.o["result"] \in {PyStr(GENUINE), PyStr(FAKE), PyStr(UNVERIFIABLE)}
        /\ j.o["confidence"].t = "int"
        /\ j.o["reasoning"].t = "str"

\* C14: _parse_response returns a verdict exactly for the replies that parse
\* as a JSON object with an enumerated result, an integer (and not boolean)
\* confidence and a string reasoning, returns None for every other reply, and
\* returns the parsed members unchanged when it accepts.
C14_ValidatesExactlyWellFormed ==
    parseOut.done =>
        /\ parseOut.ok <=> WellFormedReply(rawReply)
        /\ parseOut.ok => parseOut.v = Payload(rawReply).o

\* the passage a document holds for an identifier: the relevant lines of its
\* first page of highest score, when that score is above 0
Passage(content, ic_name) ==
    LET pages == content.pages
        best == CHOOSE k \in 1..Len(pages) :
                    \A m \in 1..Len(pages) :
                        /\ score_page(pages[m], ic_name) <= score_page(pages[k], ic_name)
                        /\ m < k => score_page(pages[m], ic_name)
                                        < score_page(pages[k], ic_name)
    IN  IF content.k = "pdf" /\ \E k \in 1..Len(pages) : score_page(pages[k], ic_name) > 0
        THEN extract_relevant_lines(pages[best], ic_name).text
        ELSE <<>>

\* the passage an online candidate yields: none when its download fails or
\* is rejected
LinkPassage(hit, ic_name) ==
    IF hit.url.get = "pdf" /\ hit.url.write = "ok"
    THEN Passage(hit.url.document, ic_name)
    ELSE <<>>

\* the documents of the fallback folder
FallbackDocuments ==
    IF fallbackDir.exists
    THEN {name \in DOMAIN fallbackDir.files : name.ext = "pdf"}
    ELSE {}

Finished(p) == proc[p].pc = "done"

C16_NoTempFileLeft ==
    \A p \in DOMAIN proc :
        Finished(p) => \A name \in DOMAIN tmpFiles : tmpFiles[name].by # p

\* the passage of the n-th candidate of a stage
Yield(p, from, n) ==
    IF from = "online"
    THEN LinkPassage(proc[p].links[n], proc[p].ic_name)
    ELSE Passage(ReadAt(TheDisk, proc[p].fallback_pdfs[n]), proc[p].ic_name)

\* C17: a candidate is downloaded or opened only when every candidate before
\* it, online links in search order and then fallback documents, yielded no
\* passage, and the text returned is the passage of the first candidate that
\* yields one.
C17_FirstSuccessWins ==
    \A p \in DOMAIN proc :
        /\ \A e \in 1..Len(proc[p].trace) :
              LET ev == proc[p].trace[e]
              IN  /\ \A m \in 1..(ev.n - 1) : Yield(p, ev.from, m) = <<>>
                  /\ ev.from = "fallback" =>
                        \A m \in 1..Len(proc[p].links) : Yield(p, "online", m) = <<>>
        /\ (Finished(p) /\ proc[p].text # <<>>) =>
              LET last == proc[p].trace[Len(proc[p].trace)]
              IN  /\ last.ev = "open"
                  /\ proc[p].text = Yield(p, last.from, last.n)
        /\ (Finished(p) /\ proc[p].text = <<>>) =>
              /\ \A m \in 1..Len(proc[p].links) : Yield(p, "online", m) = <<>>
              /\ \A m \in 1..Len(proc[p].fallback_pdfs) : Yield(p, "fallback", m) = <<>>

\* the first link gave the passage and the second was never requested
C17_Witness ==
    /\ Finished(1)
    /\ proc[1].links = <<Hit(LinkMarking), Hit(LinkPlain)>>
    /\ proc[1].trace = <<Event("download", "online", 1), Event("open", "online", 1)>>
    /\ proc[1].text # <<>>

\* C18: the file an invocation has downloaded and not yet processed is still
\* there and is still the one it wrote: no other invocation uses its name.
C18_TempNamesNotShared ==
    \A p \in DOMAIN proc :
        proc[p].pc = "extract" =>
            /\ proc[p].pdf_file.name \in DOMAIN tmpFiles
            /\ tmpFiles[proc[p].pdf_file.name].by = p

\* C19: no step of get_marking_from_datasheet deletes or changes a file of
\* the fallback folder.
C19_FallbackFolderKept == [][fallbackDir' = fallbackDir]_vars

\* an unreadable fallback document was opened, and then one with a passage
C19_Witness ==
    /\ Finished(1)
    /\ Len(proc[1].trace) >= 2
    /\ proc[1].trace[Len(proc[1].trace)].from = "fallback"
    /\ proc[1].trace[Len(proc[1].trace) - 1].from = "fallback"
    /\ \E name \in FallbackDocuments : fallbackDir.files[name].k = "corrupt"

\* C20: a verify_ic invocation calls the reasoning service at most twice; it
\* calls a second time only after a first reply that failed validation; a
\* transport failure at either call is the last call of the invocation and
\* gives UNVERIFIABLE with confidence 0; the cache-hit and guard paths make no
\* call.
C20_CallsFollowStateMachine ==
    call.op = "verify" =>
        /\ Len(apiLog) <= 2
        /\ Len(apiLog) = 2 => InvalidReply(apiLog[1])
        /\ \A k \in 1..Len(apiLog) :
              apiLog[k].k = "fail" =>
                  /\ k = Len(apiLog)
                  /\ outcome = "returned"
                  /\ IsUnverifiableZero(ret)
        /\ path \in {"cache", "guard"} => apiLog = <<>>

\* a transport failure on the retry: exactly two calls
C20_Witness ==
    /\ Returned
    /\ path = "fail2"
    /\ Len(apiLog) = 2
    /\ InvalidReply(apiLog[1])
    /\ apiLog[2] = Fail

\* C21: when the first reply of the reasoning service passes validation, it is
\* the only call of the invocation and the verdict returned is the one parsed
\* from that reply, with its result, confidence and reasoning unchanged.
C21_FirstValidReplyReturned ==
    (call.op = "verify" /\ apiLog # <<>> /\ ValidReply(apiLog[1])) =>
        /\ outcome = "returned"
        /\ Len(apiLog) = 1
        /\ ret = parse_response(apiLog[1].raw).v

\* a fenced reply is unwrapped and returned as parsed
C21_Witness ==
    /\ Returned
    /\ apiLog = <<Reply(RawFenced)>>
    /\ path = "reply1"
    /\ ret = Object(FAKE, PyInt(92)).o

\* C22: the persisted cache comes before the guard clause and the reasoning
\* call: a call for an identifier that has a cache entry returns the entry's
\* result with confidence 99 whatever the reference text is, without reaching
\* the guard clause or the reasoning call, and the guard clause answers only
\* for identifiers without an entry.
C22_CacheBeforeGuard ==
    Returned =>
        /\ HasEntry(cacheFile, call.id) =>
              /\ path \in {"cache", "memo"}
              /\ Get(ret, "result", PyNone) = Get(cacheFile.m[call.id].f, "result", PyNone)
              /\ Get(ret, "confidence", PyNone) = PyInt(99)
        /\ path = "guard" => ~HasEntry(cacheFile, call.id)

ScoreDone == textIn.fn = "score" /\ textOut.done
LinesDone == textIn.fn = "lines" /\ textOut.done
SectionDone == textIn.fn = "section" /\ textOut.done

\* the first page of highest score of a non-empty page list
FirstBest(pages, ic_name) ==
    CHOOSE k \in 1..Len(pages) :
        \A m \in 1..Len(pages) :
            /\ score_page(pages[m], ic_name) <= score_page(pages[k], ic_name)
            /\ m < k => score_page(pages[m], ic_name) < score_page(pages[k], ic_name)

\* C23 as stated: for every list of page scores, a document of all-zero
\* scores included, extract_marking_section gives the extractor's result on the
\* first page of highest score.
C23_BestPageExtracted ==
    (SectionDone /\ textIn.pages # <<>>) =>
        textOut.text
            = extract_relevant_lines(textIn.pages[FirstBest(textIn.pages, textIn.ic_name)],
                                     textIn.ic_name).text

\* C23 as amended: when some page scores above 0, extract_marking_section
\* gives the extractor's result on the first page of highest score; when every
\* page scores 0 it selects no page and gives the empty string.
C23_BestPositivePageExtracted ==
    SectionDone =>
        IF \E k \in 1..Len(textIn.pages) : score_page(textIn.pages[k], textIn.ic_name) > 0
        THEN textOut.text
                = extract_relevant_lines(
                      textIn.pages[FirstBest(textIn.pages, textIn.ic_name)],
                      textIn.ic_name).text
        ELSE textOut.text = <<>>

\* two pages of equal score: the first one is kept
C23_Witness ==
    /\ SectionDone
    /\ textIn.pages = <<PageHistory, PageMark, PageTop>>
    /\ textIn.ic_name = "NE555"
    /\ textOut.text = PageMark

\* a denylisted term ends within the first fifth of the text
Denylisted(text) ==
    \E w \in 1..Len(IGNORE_WORDS), k \in 1..Len(text) :
        LET at == Find(IGNORE_WORDS[w], UpperAtom(text[k]))
        IN  /\ at >= 0
            /\ 5 * (CharLen(SubSeq(text, 1, k - 1)) + at + Chars(IGNORE_WORDS[w]))
                  <= CharLen(text) - (CharLen(text) % 5)

\* the relevance keywords that occur in the text
KeywordsIn(text) ==
    {k \in 1..Len(KEYWORD_PATTERNS) :
        \E a \in 1..Len(text) : Find(KEYWORD_PATTERNS[k], UpperAtom(text[a])) >= 0}

\* the identifier occurs in the text, whatever the case
Mentions(text, ic_name) ==
    ic_name = "" \/ \E a \in 1..Len(text) : Find(UpperAtom(ic_name), UpperAtom(text[a])) >= 0

\* C24: score_page gives 0 when a denylisted term occurs within the first
\* fifth of the text, and otherwise 5 if the identifier occurs in the text
\* (else 0) plus 1 for each relevance keyword that occurs; the score is in 0..11.
C24_ScoreAsSpecified ==
    ScoreDone =>
        LET text == textIn.pages[1]
        IN  /\ textOut.score \in 0..11
            /\ textOut.score
                 = IF Denylisted(text) THEN 0
                   ELSE (IF Mentions(text, textIn.ic_name) THEN 5 ELSE 0)
                        + Cardinality(KeywordsIn(text))

\* a denylisted term after the first fifth: the score is not zeroed
C24_Witness ==
    /\ ScoreDone
    /\ textIn.ic_name = "STM32F103C8T6"
    /\ textIn.pages[1]
          = JoinLines(<<<<"Order", " ", "Device", " ", "Ident", " ", "Department">>,
                        <<" ", "stm32f103c8t6", " ">>,
                        <<"Revision", " ", "history">>>>)
    /\ textOut.score = 9

\* C25: extract_relevant_lines gives, joined by newlines and in their order,
\* exactly the stripped non-blank lines that hold the identifier as a literal
\* case-insensitive substring or hold a relevance keyword, for every
\* identifier.
C25_LiteralLinesKept ==
    LinesDone =>
        LET lines == SplitLines(textIn.pages[1])
            stripped == [k \in 1..Len(lines) |-> Strip(lines[k])]
            Wanted(line) ==
                /\ line # <<>>
                /\ \/ Mentions(line, textIn.ic_name)
                   \/ KeywordsIn(line) # {}
        IN  /\ ~textOut.raised
            /\ textOut.text = JoinLines(SelectSeq(stripped, Wanted))

\* the reply wrapped in one fenced code block, with and without a language
\* tag and surrounding whitespace
FencedForms(reply) ==
    {<<Fence>> \o reply \o <<Fence>>,
     <<Fence, Word("json"), Ws>> \o reply \o <<Ws, Fence>>,
     <<Ws, Fence, Word("JSON"), Ws>> \o reply \o <<Ws, Fence, Ws>>,
     <<Fence, Word("python"), Ws>> \o reply \o <<Ws, Fence>>}

Unwrapped(reply) == StripTok(reply) # <<>> /\ Head(StripTok(reply)).k # "fence"

\* C26: every reply that _parse_response accepts when unwrapped is also
\* accepted, with the same Verdict, when it is wrapped in one fenced code block
\* (fence, optional language tag, payload, fence, surrounding whitespace).
C26_FencedFormAccepted ==
    (parseOut.done /\ parseOut.ok /\ Unwrapped(rawReply)) =>
        \A wrapped \in FencedForms(rawReply) :
            /\ parse_response(wrapped).ok
            /\ parse_response(wrapped).v = parseOut.v

BothSaved ==
    /\ \A p \in Processes : savers[p].pc = "done" /\ savers[p].saved
    /\ savers[1].id # savers[2].id

\* C27: when two save_to_cache calls for different identifiers run in
\* separate processes and both have returned after writing the file, the
\* persisted store holds both entries, whatever the order of their load and
\* write steps.
C27_BothEntriesPersisted ==
    BothSaved => \A p \in Processes : HasEntry(cacheFile, savers[p].id)

====
